---- MODULE Spec2Model ----
(***************************************************************************)
(* Model of the cancer / risk-factor dashboard (the_plot_thickens).        *)
(*                                                                         *)
(* Three scripts of the repository are modelled:                           *)
(*   "map"     src/streamlit/streamlit_app_with_finished_map.py            *)
(*   "heatmap" src/heatmap/heatmap.py                                      *)
(*   "line"    src/line/streamlit_app.py  (with src/line/line.py)          *)
(*                                                                         *)
(* A pandas DataFrame is a record [columns, rows]; rows is a sequence of   *)
(* records that carry the pandas index label in idx.  A float cell is a    *)
(* normalised rational <<num, den>>, NaN is <<>>.  Python's None for a     *)
(* string-valued name is the string "None"; None for a numeric argument    *)
(* is <<>>.  Floating-point rounding is not modelled.                      *)
(***************************************************************************)
EXTENDS Integers, Sequences, FiniteSets, TLC

VARIABLES
    app,            \* the script the session runs: "map", "heatmap" or "line"
    disk,           \* the name of the data files now on disk
    cache,          \* the st.cache_data entry of load_data
    session_state,  \* st.session_state of the session
    pc,             \* where the current pass of the script is
    page,           \* the navigation radio of the pass
    risks_df,       \* the dataset the pass works on
    selected_risks, \* the multiselect value of the pass
    selected_year,  \* <<year>> in single-year mode, else NoArg
    year_range,     \* <<start, end>> in range mode, else NoArg
    selected_val,   \* the cancer type of the heatmap click event, or None
    views,          \* what the heatmap, map and trend views of the pass did
    outcome,        \* how the pass ended
    prev,           \* selected_cancer and needs_default when the pass began
    writes,         \* assignments to selected_cancer in the pass
    origin,         \* what assigned the current selected_cancer
    reads,          \* executions of load_data's body: [done, pass]
    call,           \* a direct call of one helper: its name and its arguments
    ret             \* the outcome of that call: [done, raised, value]

fnVars == <<call, ret>>
passVars == <<page, risks_df, selected_risks, selected_year, year_range,
              selected_val, views, outcome, prev, writes>>
sessVars == <<app, disk, cache, session_state, pc, origin, reads, passVars>>
vars == <<sessVars, fnVars>>

----------------------------------------------------------------------------
(* Bounds of the model *)

MaxFilterRows == 2      \* rows of a dataset handed to get_filtered_data
MaxDefaultRows == 4     \* rows of a dataset handed to get_default_cancer
MaxMapRows == 3         \* filtered rows handed to the map aggregation
MaxTrendRows == 2       \* rows of a dataset handed to render_lineplot
MaxHeatRows == 3        \* filtered rows handed to the heatmap chart
MaxLoadRows == 3        \* rows of a RateDALY.csv handed to load_data

----------------------------------------------------------------------------
(* Values *)

None == "None"
NaN == <<>>
NoArg == <<>>

isna(x) == x = <<>>

RECURSIVE Gcd(_, _)
Gcd(a, b) == IF b = 0 THEN a ELSE Gcd(b, a % b)

Abs(n) == IF n < 0 THEN -n ELSE n

\* the float n / d for integers n and d > 0
Ratio(n, d) ==
    LET g == Gcd(Abs(n), d)
    IN  <<n \div g, d \div g>>

Float(n) == Ratio(n, 1)

\* cancer types (cause_name), listed in Python's string order
CauseNames == <<"Bladder", "Breast", "Lung">>

\* the part of ALL_RISK_FACTORS the model uses, one factor per category
ALL_RISK_FACTORS == <<"Air pollution", "Tobacco", "High body-mass index">>

\* the part of AVAILABLE_YEARS the model uses
AVAILABLE_YEARS == <<1990, 1995, 2000>>

SeqRange(s) == {s[i] : i \in DOMAIN s}

Causes == SeqRange(CauseNames)
Risks == SeqRange(ALL_RISK_FACTORS)
Years == SeqRange(AVAILABLE_YEARS)

\* a single year, a range with start <= end (what select_slider gives), or neither
TimeArgs ==
    {[year |-> <<y>>, year_range |-> NoArg] : y \in Years}
    \cup {[year |-> NoArg, year_range |-> p] :
            p \in {q \in Years \X Years : q[1] <= q[2]}}
    \cup {[year |-> NoArg, year_range |-> NoArg]}

\* position of a cancer type in Python's string order
Rank(c) == CHOOSE i \in DOMAIN CauseNames : CauseNames[i] = c

----------------------------------------------------------------------------
(* DataFrames *)

DataFrame(cols, rws) == [columns |-> cols, rows |-> rws]

BaseColumns == {"location_name", "cause_name", "rei_name", "year", "val", "mapid"}

\* df[mask]: the rows that satisfy Keep, in order, index labels kept
Mask(df, Keep(_)) == DataFrame(df.columns, SelectSeq(df.rows, Keep))

\* df[col].unique(): the distinct values of cause_name
unique_cause_name(df) == {df.rows[i].cause_name : i \in DOMAIN df.rows}

\* sorted(S) for a set of cancer types
RECURSIVE sorted(_)
sorted(S) ==
    IF S = {} THEN <<>>
    ELSE LET m == CHOOSE c \in S : \A d \in S : Rank(c) <= Rank(d)
         IN  <<m>> \o sorted(S \ {m})

Return(v) == [raised |-> "", value |-> v]
Raise(e) == [raised |-> e, value |-> None]

NotCalled == [done |-> FALSE, raised |-> "", value |-> <<>>]

----------------------------------------------------------------------------
(* get_default_cancer, one per script *)

\* a get_default_cancer that takes the last type
get_default_cancer_last(df) ==
    LET cancers == sorted(unique_cause_name(df))
    IN  IF Len(cancers) > 0 THEN Return(cancers[Len(cancers)])
        ELSE Return(None)

\* streamlit_app_with_finished_map.py: cancers[1] if len(cancers) > 0 else None
get_default_cancer(df) ==
    LET cancers == sorted(unique_cause_name(df))
    IN  IF Len(cancers) > 0
        THEN IF 2 \in DOMAIN cancers THEN Return(cancers[2])
             ELSE Raise("IndexError")
        ELSE Return(None)

\* heatmap.py: the same expression
get_default_cancer_heatmap(df) ==
    LET cancers == sorted(unique_cause_name(df))
    IN  IF Len(cancers) > 0
        THEN IF 2 \in DOMAIN cancers THEN Return(cancers[2])
             ELSE Raise("IndexError")
        ELSE Return(None)

\* line/streamlit_app.py: cancers[0] if len(cancers) > 0 else None
get_default_cancer_line(df) ==
    LET cancers == sorted(unique_cause_name(df))
    IN  IF Len(cancers) > 0 THEN Return(cancers[1]) ELSE Return(None)

----------------------------------------------------------------------------
(* get_filtered_data *)

\* a get_filtered_data whose range excludes its upper end
get_filtered_data_open(df, risks, year, yrange) ==
    LET InRisks(r) == r.rei_name \in risks
        filtered == Mask(df, InRisks)
        IsYear(r) == r.year = year[1]
        InRange(r) == r.year >= yrange[1] /\ r.year < yrange[2]
    IN  IF year # NoArg THEN Mask(filtered, IsYear)
        ELSE IF yrange # NoArg THEN Mask(filtered, InRange)
        ELSE filtered

\* a get_filtered_data that takes an empty selection for "all risk factors"
get_filtered_data_all(df, risks, year, yrange) ==
    LET InRisks(r) == risks = {} \/ r.rei_name \in risks
        filtered == Mask(df, InRisks)
        IsYear(r) == r.year = year[1]
        InRange(r) == r.year >= yrange[1] /\ r.year <= yrange[2]
    IN  IF year # NoArg THEN Mask(filtered, IsYear)
        ELSE IF yrange # NoArg THEN Mask(filtered, InRange)
        ELSE filtered

\* year is <<y>> or NoArg, yrange is <<start, end>> or NoArg
get_filtered_data(df, risks, year, yrange) ==
    LET InRisks(r) == r.rei_name \in risks
        filtered == Mask(df, InRisks)
        IsYear(r) == r.year = year[1]
        InRange(r) == r.year >= yrange[1] /\ r.year <= yrange[2]
    IN  IF year # NoArg THEN Mask(filtered, IsYear)
        ELSE IF yrange # NoArg THEN Mask(filtered, InRange)
        ELSE filtered

----------------------------------------------------------------------------
(* Aggregations *)

Add(a, b) == Ratio(a[1] * b[2] + b[1] * a[2], a[2] * b[2])

\* Series.sum(): missing values are skipped, the empty sum is 0.0
RECURSIVE sum(_)
sum(rws) ==
    IF rws = <<>> THEN Float(0)
    ELSE IF isna(Head(rws).val) THEN sum(Tail(rws))
    ELSE Add(Head(rws).val, sum(Tail(rws)))

\* groupby(...).size(): every row of the group counts
size(rws) == Len(rws)

\* Series.count(): the rows with a value
count(rws) == LET HasVal(r) == ~isna(r.val) IN Len(SelectSeq(rws, HasVal))

\* groupby(...).mean(): over the rows with a value, NaN when there is none
mean(rws) ==
    IF count(rws) = 0 THEN NaN
    ELSE LET t == sum(rws) IN Ratio(t[1], t[2] * count(rws))

\* a groupby with dropna=False: a missing mapid is a key like any other
StateKeys_keepna(rws) ==
    {<<rws[i].location_name, rws[i].mapid>> : i \in DOMAIN rws}

\* the keys of groupby(['location_name', 'mapid']); a missing key drops the row
StateKeys(rws) ==
    {<<rws[i].location_name, rws[i].mapid>> :
        i \in {j \in DOMAIN rws : ~isna(rws[j].mapid)}}

StateGroup(rws, k) ==
    LET InGroup(r) == r.location_name = k[1] /\ r.mapid = k[2]
    IN  SelectSeq(rws, InGroup)

\* state_counts, state_sums and their merge deaths_ss with val / count
deaths_ss(filtered_data, cancer) ==
    LET IsCancer(r) == r.cause_name = cancer
        rws == SelectSeq(filtered_data.rows, IsCancer)
        state_counts == [k \in StateKeys(rws) |-> size(StateGroup(rws, k))]
        state_sums == [k \in StateKeys(rws) |-> sum(StateGroup(rws, k))]
        merged == DOMAIN state_sums \cap DOMAIN state_counts
    IN  {[location_name |-> k[1], mapid |-> k[2], count |-> state_counts[k],
          val |-> Ratio(state_sums[k][1], state_sums[k][2] * state_counts[k])] :
            k \in merged}

\* the map view: the no-data message, or the cleaned deaths_ss given to the chart
map_view(filtered_data, cancer) ==
    LET ss == deaths_ss(filtered_data, cancer)
    IN  IF ss = {} THEN [status |-> "nodata", data |-> {}]
        ELSE [status |-> "chart",
              data |-> {g \in ss : ~isna(g.mapid) /\ ~isna(g.val)}]

\* a trend aggregation that gives every risk factor a point in every year
TrendKeys_filled(rws) ==
    {rws[i].year : i \in DOMAIN rws} \X {rws[i].rei_name : i \in DOMAIN rws}

\* the keys of groupby(["year", "rei_name"])
TrendKeys(rws) == {<<rws[i].year, rws[i].rei_name>> : i \in DOMAIN rws}

TrendGroup(rws, k) ==
    LET InGroup(r) == r.year = k[1] /\ r.rei_name = k[2]
    IN  SelectSeq(rws, InGroup)

\* IMPUTE_VALUE of the map script's heatmap
IMPUTE_VALUE == -1

\* the cell of the heatmap a row is drawn in
heat_cell(r) == [cause_name |-> r.cause_name, rei_name |-> r.rei_name, val |-> r.val]

\* transform_calculate: datum.val == IMPUTE_VALUE ? 'Missing (N/A)' : datum.val;
\* TRUE when the tooltip reads 'Missing (N/A)' (a null val is not equal to -1)
tooltip_missing(v) == v = Float(IMPUTE_VALUE)

\* alt.Chart(filtered_data) of heatmap.py: one mark per row of filtered_data,
\* no aggregate in the encoding, the raw val in the tooltip
heatmap_data(filtered_data) ==
    [rows |-> [j \in DOMAIN filtered_data.rows |-> heat_cell(filtered_data.rows[j])],
     imputed |-> {},
     missing |-> {}]

\* the map script's chart: transform_impute adds, per cause_name, a row with
\* val = IMPUTE_VALUE for every rei_name of the data the cause has no row for
heatmap_data_imputed(filtered_data) ==
    LET rws == filtered_data.rows
        keys == {rws[j].rei_name : j \in DOMAIN rws}
        groups == {rws[j].cause_name : j \in DOMAIN rws}
        Has(c, k) == \E j \in DOMAIN rws : rws[j].cause_name = c /\ rws[j].rei_name = k
        imputed == {[cause_name |-> c, rei_name |-> k, val |-> Float(IMPUTE_VALUE)] :
                       <<c, k>> \in {g \in groups \X keys : ~Has(g[1], g[2])}}
        marks == {heat_cell(rws[j]) : j \in DOMAIN rws} \cup imputed
    IN  [rows |-> [j \in DOMAIN rws |-> heat_cell(rws[j])],
         imputed |-> imputed,
         missing |-> {<<m.cause_name, m.rei_name>> :
                         m \in {n \in marks : tooltip_missing(n.val)}}]

HeatmapFor(a, filtered_data) ==
    IF a = "map" THEN heatmap_data_imputed(filtered_data)
    ELSE heatmap_data(filtered_data)

\* a render_lineplot that never looks at measure_name
lineplot_rows_with_deaths(df, risks, cancer, year, yrange) ==
    LET IsCancer(r) == r.cause_name = cancer
        InRisks(r) == r.rei_name \in risks
        IsYear(r) == r.year = year[1]
        InRange(r) == r.year >= yrange[1] /\ r.year <= yrange[2]
        df3 == SelectSeq(SelectSeq(df.rows, IsCancer), InRisks)
    IN  IF year # NoArg THEN SelectSeq(df3, IsYear)
        ELSE IF yrange # NoArg THEN SelectSeq(df3, InRange)
        ELSE df3

\* a render_lineplot whose range excludes its upper end
lineplot_rows_open(df, risks, cancer, year, yrange) ==
    LET NotDeaths(r) == r.measure_name # "Deaths"
        IsCancer(r) == r.cause_name = cancer
        InRisks(r) == r.rei_name \in risks
        IsYear(r) == r.year = year[1]
        InRange(r) == r.year >= yrange[1] /\ r.year < yrange[2]
        df1 == IF "measure_name" \in df.columns
               THEN SelectSeq(df.rows, NotDeaths) ELSE df.rows
        df3 == SelectSeq(SelectSeq(df1, IsCancer), InRisks)
    IN  IF year # NoArg THEN SelectSeq(df3, IsYear)
        ELSE IF yrange # NoArg THEN SelectSeq(df3, InRange)
        ELSE df3

\* render_lineplot: the rows it keeps
lineplot_rows(df, risks, cancer, year, yrange) ==
    LET NotDeaths(r) == r.measure_name # "Deaths"
        IsCancer(r) == r.cause_name = cancer
        InRisks(r) == r.rei_name \in risks
        IsYear(r) == r.year = year[1]
        InRange(r) == r.year >= yrange[1] /\ r.year <= yrange[2]
        df1 == IF "measure_name" \in df.columns
               THEN SelectSeq(df.rows, NotDeaths) ELSE df.rows
        df2 == SelectSeq(df1, IsCancer)
        df3 == SelectSeq(df2, InRisks)
    IN  IF year # NoArg THEN SelectSeq(df3, IsYear)
        ELSE IF yrange # NoArg THEN SelectSeq(df3, InRange)
        ELSE df3

\* render_lineplot: the no-data message, or agg_df given to the chart
render_lineplot(df, risks, cancer, year, yrange) ==
    LET kept == lineplot_rows(df, risks, cancer, year, yrange)
    IN  IF kept = <<>> THEN [status |-> "nodata", rows |-> kept, data |-> {}]
        ELSE [status |-> "chart", rows |-> kept,
              data |-> {[year |-> k[1], rei_name |-> k[2],
                         val |-> mean(TrendGroup(kept, k))] : k \in TrendKeys(kept)}]

----------------------------------------------------------------------------
(* The data files and load_data *)

\* state name -> mapid of stateCodes.csv; a state it lacks gets a missing mapid
StateCodes == [Texas |-> 48, Ohio |-> 39]

mapid_of(loc) == IF loc \in DOMAIN StateCodes THEN Float(StateCodes[loc]) ELSE NaN

NumericTokens ==
    ("1990" :> 1990) @@ ("1995" :> 1995) @@ ("2000" :> 2000)
        @@ ("10" :> 10) @@ ("20" :> 20)

\* pd.to_numeric(errors='coerce') of one cell
to_numeric(tok) ==
    IF tok \in DOMAIN NumericTokens THEN Float(NumericTokens[tok]) ELSE NaN

RawRow(loc, cause, rei, y, v, measure) ==
    [location_name |-> loc, cause_name |-> cause, rei_name |-> rei,
     year |-> y, val |-> v, measure_name |-> measure]

RawColumns ==
    {"measure_name", "location_name", "cause_name", "rei_name", "year", "val"}

\* a row that repeats the header inside the file
HeaderRow ==
    RawRow("location_name", "cause_name", "rei_name", "year", "val", "measure_name")

\* the contents the data directory can have
Files ==
    [three |->
        [readable |-> TRUE, columns |-> RawColumns,
         rows |-> <<RawRow("Texas", "Lung", "Tobacco", "1990", "10", "DALYs"),
                    RawRow("Texas", "Lung", "Tobacco", "1990", "", "DALYs"),
                    HeaderRow,
                    RawRow("Ohio", "Breast", "Tobacco", "1995", "20", "DALYs"),
                    RawRow("Guam", "Bladder", "Air pollution", "1990", "10", "DALYs"),
                    RawRow("Ohio", "Lung", "Air pollution", "2000", "20", "Deaths")>>],
     two |->
        [readable |-> TRUE, columns |-> RawColumns \ {"measure_name"},
         rows |-> <<RawRow("Texas", "Lung", "Tobacco", "1995", "20", ""),
                    RawRow("Ohio", "Bladder", "Tobacco", "1990", "10", "")>>],
     one |->
        [readable |-> TRUE, columns |-> RawColumns,
         rows |-> <<RawRow("Texas", "Bladder", "Tobacco", "1990", "10", "DALYs")>>],
     empty |->
        [readable |-> TRUE, columns |-> RawColumns, rows |-> <<>>],
     missing |->
        [readable |-> FALSE, columns |-> {}, rows |-> <<>>]]

\* streamlit_app_with_finished_map.py load_data (heatmap.py has the same body)
load_data(file) ==
    IF ~file.readable THEN Raise("FileNotFoundError")
    ELSE
        LET merged == [i \in DOMAIN file.rows |->
                          [idx |-> i - 1,
                           location_name |-> file.rows[i].location_name,
                           cause_name |-> file.rows[i].cause_name,
                           rei_name |-> file.rows[i].rei_name,
                           year |-> file.rows[i].year,
                           val |-> file.rows[i].val,
                           mapid |-> mapid_of(file.rows[i].location_name),
                           measure_name |-> file.rows[i].measure_name]]
            NotHeader(r) == r.rei_name # "rei_name"
            kept == SelectSeq(merged, NotHeader)
            coerced == [i \in DOMAIN kept |->
                           [kept[i] EXCEPT !.year = to_numeric(kept[i].year),
                                           !.val = to_numeric(kept[i].val)]]
        IN  IF \E i \in DOMAIN coerced : isna(coerced[i].year)
            THEN Raise("IntCastingNaNError")
            ELSE Return(DataFrame(file.columns \cup {"state", "mapid"},
                                  [i \in DOMAIN coerced |->
                                      [coerced[i] EXCEPT !.year = coerced[i].year[1]]]))

\* line/streamlit_app.py load_data: the file as read_csv types it, no join
load_data_line(file) ==
    IF ~file.readable THEN Raise("FileNotFoundError")
    ELSE Return(DataFrame(file.columns,
                    [i \in DOMAIN file.rows |->
                        [idx |-> i - 1,
                         location_name |-> file.rows[i].location_name,
                         cause_name |-> file.rows[i].cause_name,
                         rei_name |-> file.rows[i].rei_name,
                         year |-> NumericTokens[file.rows[i].year],
                         val |-> to_numeric(file.rows[i].val),
                         mapid |-> NaN,
                         measure_name |-> file.rows[i].measure_name]]))

Apps == {"map", "heatmap", "line"}

\* the files a script can find: Risks.csv of the line script has no header rows
DiskChoices(a) ==
    IF a = "line"
    THEN {f \in DOMAIN Files : \A i \in DOMAIN Files[f].rows : Files[f].rows[i] # HeaderRow}
    ELSE DOMAIN Files

LoadFor(a, file) == IF a = "line" THEN load_data_line(file) ELSE load_data(file)

DefaultFor(a, df) ==
    IF a = "line" THEN get_default_cancer_line(df)
    ELSE IF a = "heatmap" THEN get_default_cancer_heatmap(df)
    ELSE get_default_cancer(df)

----------------------------------------------------------------------------
(* The selection state *)

\* a dashboard that assigns the default on every pass
needs_default_always(ss) == TRUE

\* "if st.session_state.needs_default or st.session_state.selected_cancer is None"
needs_default_now(ss) == ss.needs_default \/ ss.selected_cancer = None

\* a click handler that keeps a selection that is already bound
on_select_keep(selected_cancer, val) ==
    IF val # None /\ selected_cancer = None THEN val ELSE selected_cancer

\* "if selected_val: st.session_state.selected_cancer = selected_val"
on_select(selected_cancer, val) ==
    IF val # None THEN val ELSE selected_cancer

\* a trend column that resets the selection on every pass
is_invalid_always(selected_cancer, cancer_list) == TRUE

\* "selected_cancer not in cancer_list"
is_invalid(selected_cancer, cancer_list) ==
    selected_cancer \notin SeqRange(cancer_list)

get_cancer_list(df) == sorted(unique_cause_name(df))

----------------------------------------------------------------------------
(* One session of a dashboard script *)

NoFrame == DataFrame({}, <<>>)
NoCache == [hit |-> FALSE, value |-> NoFrame]
NoSession ==
    [present |-> FALSE, selected_cancer |-> None, needs_default |-> TRUE,
     has_risks |-> FALSE, selected_risks |-> {}]
NoView == [status |-> "none", cancer |-> None]
NoViews == [heatmap |-> NoView, map |-> NoView, trend |-> NoView]
NoPrev ==
    [selected_cancer |-> None, needs_default |-> TRUE, origin |-> "none",
     cached |-> FALSE, picked |-> None]

\* no execution of load_data has returned yet, none in this pass
NoReads == [done |-> FALSE, pass |-> "none"]

PassIdle ==
    /\ page = ""
    /\ risks_df = NoFrame
    /\ selected_risks = {}
    /\ selected_year = NoArg
    /\ year_range = NoArg
    /\ selected_val = None
    /\ views = NoViews
    /\ outcome = "idle"
    /\ prev = NoPrev
    /\ writes = 0

SessionIdle ==
    /\ app = "map"
    /\ disk = "three"
    /\ cache = NoCache
    /\ session_state = NoSession
    /\ pc = "idle"
    /\ origin = "none"
    /\ reads = NoReads
    /\ PassIdle

NoCall == [fn |-> ""]

Init ==
    /\ app \in Apps
    /\ disk \in DiskChoices(app)
    /\ cache = NoCache
    /\ session_state = NoSession
    /\ pc = "idle"
    /\ origin = "none"
    /\ reads = NoReads
    /\ PassIdle
    /\ call = NoCall
    /\ ret = NotCalled

\* the script from its top to the navigation radio
Begin ==
    /\ pc = "idle"
    /\ \E p \in {"Main Dashboard", "About"} :
          LET ss == IF session_state.present THEN session_state
                    ELSE [session_state EXCEPT !.present = TRUE,
                                               !.selected_cancer = None,
                                               !.needs_default = TRUE]
              org == IF session_state.present THEN origin ELSE "init"
          IN  /\ session_state' = ss
              /\ origin' = org
              /\ prev' = [selected_cancer |-> ss.selected_cancer,
                          needs_default |-> ss.needs_default,
                          origin |-> org, cached |-> cache.hit, picked |-> None]
              /\ page' = p
              /\ pc' = IF p = "About" THEN "end" ELSE "load"
              /\ outcome' = IF p = "About" THEN "about" ELSE "running"
    /\ writes' = 0
    /\ UNCHANGED <<app, reads, disk, cache, risks_df, selected_risks, selected_year,
                   year_range, selected_val, views, call, ret>>

\* a load_data without @st.cache_data
memo_never(c) == FALSE

\* @st.cache_data: load_data has no argument, so any stored entry is a hit
memo_hit(c) == c.hit

\* an except branch that forgets the selection
except_load_reset(ss) == [ss EXCEPT !.selected_cancer = None, !.needs_default = TRUE]

\* the except branch of the try block: st.error, st.info, st.stop; it assigns
\* nothing to st.session_state
except_load(ss) == ss

\* the try block: load_data through the cache, then the default assignment
Load ==
    /\ pc = "load"
    /\ LET r == IF memo_hit(cache) THEN Return(cache.value)
                ELSE LoadFor(app, Files[disk])
           d == DefaultFor(app, r.value)
       IN  IF r.raised # ""
           THEN /\ outcome' = "load_error"
                /\ pc' = "end"
                /\ session_state' = except_load(session_state)
                /\ reads' = [reads EXCEPT !.pass = "failed"]
                /\ UNCHANGED <<cache, risks_df, origin, writes>>
           ELSE /\ cache' = [hit |-> TRUE, value |-> r.value]
                /\ reads' = IF memo_hit(cache) THEN reads
                            ELSE [done |-> TRUE, pass |-> "ok"]
                /\ risks_df' = r.value
                /\ IF ~needs_default_now(session_state)
                   THEN /\ pc' = "sidebar"
                        /\ UNCHANGED <<outcome, session_state, origin, writes>>
                   ELSE IF d.raised # ""
                   THEN /\ outcome' = "load_error"
                        /\ pc' = "end"
                        /\ session_state' = except_load(session_state)
                        /\ UNCHANGED <<origin, writes>>
                   ELSE /\ session_state' =
                               [session_state EXCEPT !.selected_cancer = d.value,
                                                     !.needs_default = FALSE]
                        /\ origin' = "default"
                        /\ writes' = writes + 1
                        /\ pc' = "sidebar"
                        /\ UNCHANGED outcome
    /\ UNCHANGED <<app, disk, page, selected_risks, selected_year, year_range,
                   selected_val, views, prev, call, ret>>

\* a dashboard that goes on with an empty selection
not_selected_never(risks) == FALSE

\* "if not selected_risks": the warning and st.stop
not_selected(risks) == risks = {}

\* the sidebar: the risk-factor multiselect, the time widgets, the empty check
Sidebar ==
    /\ pc = "sidebar"
    /\ \E risks \in SUBSET Risks, t \in TimeArgs \ {[year |-> NoArg, year_range |-> NoArg]} :
          /\ selected_risks' = risks
          /\ session_state' = [session_state EXCEPT !.has_risks = TRUE,
                                                    !.selected_risks = risks]
          /\ selected_year' = t.year
          /\ year_range' = t.year_range
          /\ IF not_selected(risks)
             THEN pc' = "end" /\ outcome' = "no_risks"
             ELSE pc' = "heatmap" /\ UNCHANGED outcome
    /\ UNCHANGED <<app, reads, disk, cache, page, risks_df, selected_val, views, prev,
                   writes, origin, call, ret>>

\* the events the heatmap chart can send: no selection, or a cancer type it shows
ClickEvents(chart_data) == {None} \cup unique_cause_name(chart_data)

\* the heatmap over the filtered rows and the handling of its click event
Heatmap ==
    /\ pc = "heatmap"
    /\ IF app = "line"
       THEN UNCHANGED <<selected_val, session_state, origin, writes, views>>
       ELSE LET filtered_data == get_filtered_data(risks_df, selected_risks,
                                                   selected_year, year_range)
            IN  \E ev \in ClickEvents(filtered_data) :
                   /\ selected_val' = ev
                   /\ session_state' =
                          [session_state EXCEPT !.selected_cancer =
                              on_select(session_state.selected_cancer, ev)]
                   /\ origin' = IF ev # None THEN "click" ELSE origin
                   /\ writes' = IF ev # None THEN writes + 1 ELSE writes
                   /\ views' = [views EXCEPT !.heatmap =
                                   [status |-> "chart", cancer |-> None]]
    /\ pc' = "map"
    /\ UNCHANGED <<app, reads, disk, cache, page, risks_df, selected_risks, selected_year,
                   year_range, outcome, prev, call, ret>>

\* the map column: filter, aggregate by state, no-data message or chart
Map ==
    /\ pc = "map"
    /\ IF app = "line"
       THEN UNCHANGED views
       ELSE LET filtered_data == get_filtered_data(risks_df, selected_risks,
                                                   selected_year, year_range)
                mv == map_view(filtered_data, session_state.selected_cancer)
            IN  \E chart_raises \in BOOLEAN :
                   /\ chart_raises => mv.status = "chart"
                   /\ views' = [views EXCEPT !.map =
                                   [status |-> IF chart_raises THEN "render_error"
                                               ELSE mv.status,
                                    cancer |-> session_state.selected_cancer]]
    /\ pc' = "trend"
    /\ UNCHANGED <<app, reads, disk, cache, session_state, origin, page, risks_df,
                   selected_risks, selected_year, year_range, selected_val,
                   outcome, prev, writes, call, ret>>

\* a render_lineplot that drops the Deaths rows from its argument in place
caller_frame_filtered(df) ==
    LET NotDeaths(r) == r.measure_name # "Deaths"
    IN  DataFrame(df.columns, SelectSeq(df.rows, NotDeaths))

\* the caller's risks_df after render_lineplot: the function works on
\* risks_df.copy() and rebinds its local df at every filter
caller_frame(df) == df

\* the trend column of streamlit_app_with_finished_map.py:
\* the validity check of selected_cancer, then render_lineplot
TrendMap ==
    /\ pc = "trend" /\ app = "map"
    /\ LET cancer_list == get_cancer_list(risks_df)
           invalid == is_invalid(session_state.selected_cancer, cancer_list)
           d == get_default_cancer(risks_df)
           cancer == IF invalid THEN d.value ELSE session_state.selected_cancer
           lp == render_lineplot(risks_df, selected_risks, cancer,
                                 selected_year, year_range)
       IN  IF invalid /\ d.raised # ""
           THEN /\ outcome' = "exception"
                /\ UNCHANGED <<session_state, origin, writes, views, risks_df>>
           ELSE /\ session_state' = [session_state EXCEPT !.selected_cancer = cancer]
                /\ risks_df' = caller_frame(risks_df)
                /\ origin' = IF invalid THEN "recovery" ELSE origin
                /\ writes' = IF invalid THEN writes + 1 ELSE writes
                /\ views' = [views EXCEPT !.trend =
                                [status |-> lp.status, cancer |-> cancer]]
                /\ outcome' = "done"
    /\ pc' = "end"
    /\ UNCHANGED <<app, reads, disk, cache, page, selected_risks, selected_year,
                   year_range, selected_val, prev, call, ret>>

\* the trend column of heatmap.py: a placeholder
TrendHeatmap ==
    /\ pc = "trend" /\ app = "heatmap"
    /\ outcome' = "done"
    /\ pc' = "end"
    /\ UNCHANGED <<app, reads, disk, cache, session_state, origin, page, risks_df,
                   selected_risks, selected_year, year_range, selected_val, views,
                   prev, writes, call, ret>>

\* the trend column of line/streamlit_app.py: the validity check, the cancer
\* selectbox and its sync to selected_cancer, then render_lineplot
TrendLine ==
    /\ pc = "trend" /\ app = "line"
    /\ LET cancer_list == get_cancer_list(risks_df)
           invalid == is_invalid(session_state.selected_cancer, cancer_list)
           checked == IF invalid THEN get_default_cancer_line(risks_df).value
                      ELSE session_state.selected_cancer
       IN  IF checked \notin SeqRange(cancer_list)
           THEN \* cancer_list.index(...) raises ValueError
                /\ session_state' = [session_state EXCEPT !.selected_cancer = checked]
                /\ origin' = IF invalid THEN "recovery" ELSE origin
                /\ writes' = IF invalid THEN writes + 1 ELSE writes
                /\ outcome' = "exception"
                /\ UNCHANGED <<views, prev, risks_df>>
           ELSE \E pick \in {None} \cup SeqRange(cancer_list) :
                   LET cancer == IF pick = None THEN checked ELSE pick
                       lp == render_lineplot(risks_df, selected_risks, cancer,
                                             selected_year, year_range)
                   IN  /\ session_state' =
                              [session_state EXCEPT !.selected_cancer = cancer]
                       /\ origin' = IF pick # None /\ pick # checked THEN "selectbox"
                                    ELSE IF invalid THEN "recovery" ELSE origin
                       /\ writes' = writes + 1 + (IF invalid THEN 1 ELSE 0)
                       /\ prev' = [prev EXCEPT !.picked = pick]
                       /\ views' = [views EXCEPT !.trend =
                                       [status |-> lp.status, cancer |-> cancer]]
                       /\ risks_df' = caller_frame(risks_df)
                       /\ outcome' = "done"
    /\ pc' = "end"
    /\ UNCHANGED <<app, reads, disk, cache, page, selected_risks, selected_year,
                   year_range, selected_val, call, ret>>

\* the pass is over: its locals are gone, the session waits for an interaction
Finish ==
    /\ pc = "end"
    /\ pc' = "idle"
    /\ page' = ""
    /\ risks_df' = NoFrame
    /\ selected_risks' = {}
    /\ selected_year' = NoArg
    /\ year_range' = NoArg
    /\ selected_val' = None
    /\ views' = NoViews
    /\ outcome' = "idle"
    /\ prev' = NoPrev
    /\ writes' = 0
    /\ reads' = [reads EXCEPT !.pass = "none"]
    /\ UNCHANGED <<app, disk, cache, session_state, origin, call, ret>>

\* the data files are replaced between two passes
ChangeFiles ==
    /\ pc = "idle"
    /\ \E f \in DiskChoices(app) \ {disk} : disk' = f
    /\ UNCHANGED <<app, reads, cache, session_state, pc, origin, passVars, call, ret>>

\* the st.cache_data entry is dropped ("Clear cache", or the script was edited)
ClearCache ==
    /\ pc = "idle"
    /\ cache.hit
    /\ cache' = NoCache
    /\ UNCHANGED <<app, reads, disk, session_state, pc, origin, passVars, call, ret>>

\* the browser tab is reloaded: a new session on the same server process
NewSession ==
    /\ pc = "idle"
    /\ session_state.present
    /\ session_state' = NoSession
    /\ origin' = "none"
    /\ UNCHANGED <<app, reads, disk, cache, pc, passVars, call, ret>>

Next ==
    \/ Begin
    \/ Load
    \/ Sidebar
    \/ Heatmap
    \/ Map
    \/ TrendMap
    \/ TrendHeatmap
    \/ TrendLine
    \/ Finish
    \/ ChangeFiles
    \/ ClearCache
    \/ NewSession

Spec == Init /\ [][Next]_vars

----------------------------------------------------------------------------
(* Direct calls of the helpers on bounded inputs *)

Row(i, loc, cause, rei, y, v, m) ==
    [idx |-> i, location_name |-> loc, cause_name |-> cause, rei_name |-> rei,
     year |-> y, val |-> v, mapid |-> m, measure_name |-> ""]

\* the sequences over S of length at most n
SeqsUpTo(S, n) == UNION {[1..k -> S] : k \in 0..n}

\* pandas gives the rows of a fresh frame the labels 0, 1, 2, ...
Relabel(rws) == [i \in DOMAIN rws |-> [rws[i] EXCEPT !.idx = i - 1]]

\* rows that differ in the columns get_filtered_data reads
FilterRowDomain ==
    {Row(0, "Texas", "Lung", rei, y, Float(10), Float(48)) :
        rei \in Risks, y \in Years}

FilterFrames ==
    {DataFrame(BaseColumns, Relabel(rws)) :
        rws \in SeqsUpTo(FilterRowDomain, MaxFilterRows)}

\* rows that differ in the column get_default_cancer reads
DefaultRowDomain ==
    {Row(0, "Texas", c, "Tobacco", 1990, Float(10), Float(48)) : c \in Causes}

DefaultFrames ==
    {DataFrame(BaseColumns, Relabel(rws)) :
        rws \in SeqsUpTo(DefaultRowDomain, MaxDefaultRows)}

InitFilter ==
    /\ SessionIdle
    /\ \E df \in FilterFrames, risks \in SUBSET Risks, t \in TimeArgs :
          call = [fn |-> "get_filtered_data", risks_df |-> df,
                  selected_risks |-> risks, year |-> t.year,
                  year_range |-> t.year_range]
    /\ ret = NotCalled

CallFilter ==
    /\ call.fn = "get_filtered_data"
    /\ ~ret.done
    /\ ret' = [done |-> TRUE, raised |-> "",
               value |-> get_filtered_data(call.risks_df, call.selected_risks,
                                           call.year, call.year_range)]
    /\ UNCHANGED <<call, sessVars>>

NextFilter == CallFilter

SpecFilter == InitFilter /\ [][NextFilter]_vars

InitDefault ==
    /\ SessionIdle
    /\ \E df \in DefaultFrames :
          call = [fn |-> "get_default_cancer", risks_df |-> df]
    /\ ret = NotCalled

\* the three scripts' get_default_cancer on the same dataset
CallDefault ==
    /\ call.fn = "get_default_cancer"
    /\ ~ret.done
    /\ ret' = [done |-> TRUE, raised |-> "",
               value |-> [map |-> get_default_cancer(call.risks_df),
                          heatmap |-> get_default_cancer_heatmap(call.risks_df),
                          line |-> get_default_cancer_line(call.risks_df)]]
    /\ UNCHANGED <<call, sessVars>>

NextDefault == CallDefault

SpecDefault == InitDefault /\ [][NextDefault]_vars

\* rows of RateDALY.csv whose year and val cells are numbers or other text
LoadRowDomain ==
    {RawRow(loc, "Lung", "Tobacco", y, v, "DALYs") :
        loc \in {"Texas", "Guam"}, y \in {"1990", "n/a"}, v \in {"10", "n/a"}}
    \cup {HeaderRow}

LoadFiles ==
    {[readable |-> TRUE, columns |-> RawColumns, rows |-> rws] :
        rws \in SeqsUpTo(LoadRowDomain, MaxLoadRows)}

InitLoad ==
    /\ SessionIdle
    /\ \E f \in LoadFiles : call = [fn |-> "load_data", file |-> f]
    /\ ret = NotCalled

CallLoad ==
    /\ call.fn = "load_data"
    /\ ~ret.done
    /\ LET r == load_data(call.file)
       IN  ret' = [done |-> TRUE, raised |-> r.raised, value |-> r.value]
    /\ UNCHANGED <<call, sessVars>>

NextLoad == CallLoad

SpecLoad == InitLoad /\ [][NextLoad]_vars

\* val cells: missing, or a rate
ValCells == {NaN, Float(10), Float(20)}

\* filtered rows that differ in the columns the map aggregation reads
MapRowDomain ==
    {Row(0, loc, c, "Tobacco", 1990, v, mapid_of(loc)) :
        loc \in {"Texas", "Ohio", "Guam"}, c \in {"Breast", "Lung"}, v \in ValCells}

MapFrames ==
    {DataFrame(BaseColumns, Relabel(rws)) :
        rws \in SeqsUpTo(MapRowDomain, MaxMapRows)}

\* filtered rows that differ in the columns the heatmap reads
HeatRowDomain ==
    {Row(0, "Texas", c, rei, 1990, v, mapid_of("Texas")) :
        c \in {"Breast", "Lung"}, rei \in {"Tobacco", "Air pollution"},
        v \in ValCells \cup {Float(IMPUTE_VALUE)}}

HeatFrames ==
    {DataFrame(BaseColumns, Relabel(rws)) :
        rws \in SeqsUpTo(HeatRowDomain, MaxHeatRows)}

\* val and measure_name of a row of a file that has a measure_name column
MeasuredCells ==
    {<<Float(10), "DALYs">>, <<Float(20), "DALYs">>, <<NaN, "DALYs">>,
     <<Float(20), "Deaths">>}

\* rows that differ in the columns render_lineplot reads
TrendRowDomain ==
    {Row(0, "Texas", c, rei, y, v, mapid_of("Texas")) :
        c \in {"Breast", "Lung"}, rei \in {"Tobacco", "Air pollution"},
        y \in {1990, 1995}, v \in ValCells}

\* the same rows in a file with a measure_name column
MeasuredRowDomain ==
    {[Row(0, "Texas", c, rei, y, m[1], mapid_of("Texas")) EXCEPT !.measure_name = m[2]] :
        c \in {"Breast", "Lung"}, rei \in {"Tobacco", "Air pollution"},
        y \in {1990, 1995}, m \in MeasuredCells}

TrendFrames ==
    {DataFrame(BaseColumns, Relabel(rws)) :
        rws \in SeqsUpTo(TrendRowDomain, MaxTrendRows)}
    \cup {DataFrame(BaseColumns \cup {"measure_name"}, Relabel(rws)) :
        rws \in SeqsUpTo(MeasuredRowDomain, MaxTrendRows)}

InitAgg ==
    /\ SessionIdle
    /\ \/ \E df \in MapFrames, c \in {"Lung", None} :
             call = [fn |-> "map_view", filtered_data |-> df, selected_cancer |-> c]
       \/ \E df \in TrendFrames, risks \in {{"Tobacco"}, {"Tobacco", "Air pollution"}},
             t \in {[year |-> <<1990>>, year_range |-> NoArg],
                    [year |-> NoArg, year_range |-> <<1990, 1995>>],
                    [year |-> NoArg, year_range |-> NoArg]} :
             call = [fn |-> "render_lineplot", risks_df |-> df,
                     selected_risks |-> risks, selected_cancer |-> "Lung",
                     selected_year |-> t.year, year_range |-> t.year_range]
       \/ \E df \in HeatFrames, a \in {"map", "heatmap"} :
             call = [fn |-> "heatmap", script |-> a, filtered_data |-> df]
    /\ ret = NotCalled

CallMapView ==
    /\ call.fn = "map_view"
    /\ ~ret.done
    /\ ret' = [done |-> TRUE, raised |-> "",
               value |-> map_view(call.filtered_data, call.selected_cancer)]
    /\ UNCHANGED <<call, sessVars>>

CallLineplot ==
    /\ call.fn = "render_lineplot"
    /\ ~ret.done
    /\ ret' = [done |-> TRUE, raised |-> "",
               value |-> render_lineplot(call.risks_df, call.selected_risks,
                                         call.selected_cancer, call.selected_year,
                                         call.year_range)]
    /\ UNCHANGED <<call, sessVars>>

CallHeatmap ==
    /\ call.fn = "heatmap"
    /\ ~ret.done
    /\ ret' = [done |-> TRUE, raised |-> "",
               value |-> HeatmapFor(call.script, call.filtered_data)]
    /\ UNCHANGED <<call, sessVars>>

NextAgg == CallMapView \/ CallLineplot \/ CallHeatmap

SpecAgg == InitAgg /\ [][NextAgg]_vars

----------------------------------------------------------------------------
(* Claims about get_filtered_data *)

\* the time constraint of a call, as the claim states it
TimeHolds(r, c) ==
    /\ c.year # NoArg => r.year = c.year[1]
    /\ (c.year = NoArg /\ c.year_range # NoArg) =>
           (c.year_range[1] <= r.year /\ r.year <= c.year_range[2])

Labels(df) == {df.rows[i].idx : i \in DOMAIN df.rows}

\* the returned rows are rows of the dataset, each at most once
IsSubFrame(out, df) ==
    /\ \A j \in DOMAIN out.rows : \E i \in DOMAIN df.rows : df.rows[i] = out.rows[j]
    /\ \A j, k \in DOMAIN out.rows : out.rows[j].idx = out.rows[k].idx => j = k

\* C1: with a non-empty selected_risks and a single year or an inclusive
\* range, get_filtered_data returns exactly the rows of the dataset whose
\* rei_name is selected and whose year meets the time constraint.
C1_FilterExact ==
    (ret.done /\ call.fn = "get_filtered_data" /\ call.selected_risks # {}
        /\ (call.year # NoArg \/ call.year_range # NoArg)) =>
    /\ IsSubFrame(ret.value, call.risks_df)
    /\ \A i \in DOMAIN call.risks_df.rows :
          LET r == call.risks_df.rows[i]
          IN  (r.idx \in Labels(ret.value)) <=>
                  (r.rei_name \in call.selected_risks /\ TimeHolds(r, call))

\* a range call that kept the row at the upper end of the range and dropped
\* the other row of the dataset
C1_Witness ==
    /\ ret.done /\ call.fn = "get_filtered_data"
    /\ call.selected_risks # {} /\ call.year_range # NoArg
    /\ call.year_range[1] < call.year_range[2]
    /\ \E j \in DOMAIN ret.value.rows : ret.value.rows[j].year = call.year_range[2]
    /\ Len(ret.value.rows) = 1
    /\ Len(call.risks_df.rows) = 2

\* C2: with an empty selected_risks get_filtered_data returns no row.
C2_EmptyRisksEmpty ==
    (ret.done /\ call.fn = "get_filtered_data" /\ call.selected_risks = {}) =>
        ret.value.rows = <<>>

\* the call had rows to return and a time constraint they meet
C2_Witness ==
    /\ ret.done /\ call.fn = "get_filtered_data" /\ call.selected_risks = {}
    /\ call.risks_df.rows # <<>>
    /\ \A i \in DOMAIN call.risks_df.rows : TimeHolds(call.risks_df.rows[i], call)
    /\ ret.value.rows = <<>>

----------------------------------------------------------------------------
(* Claims about get_default_cancer *)

DistinctCauses == unique_cause_name(call.risks_df)

\* the type of S with exactly n types of S before it in string order
NthCause(S, n) ==
    CHOOSE c \in S : Cardinality({d \in S : Rank(d) < Rank(c)}) = n

DefaultCalled == ret.done /\ call.fn = "get_default_cancer"

C4_SingleTypeReturned ==
    (DefaultCalled /\ Cardinality(DistinctCauses) = 1) =>
        /\ ret.value.map = Return(NthCause(DistinctCauses, 0))
        /\ ret.value.heatmap = Return(NthCause(DistinctCauses, 0))

----------------------------------------------------------------------------
(* Claims about the aggregations *)

\* the indices of the rows of one (location_name, map_id) group of a cancer type
GroupIdx(df, c, loc, m) ==
    {i \in DOMAIN df.rows :
        /\ df.rows[i].cause_name = c
        /\ df.rows[i].location_name = loc
        /\ df.rows[i].mapid = m}

\* the sum of the rationals f[i], i in I
RECURSIVE SumOver(_, _)
SumOver(I, f) ==
    IF I = {} THEN Float(0)
    ELSE LET i == CHOOSE j \in I : TRUE
         IN  Add(f[i], SumOver(I \ {i}, f))

\* val of the rows of I, a missing val counting for nothing
ValOrZero(df) ==
    [i \in DOMAIN df.rows |->
        IF isna(df.rows[i].val) THEN Float(0) ELSE df.rows[i].val]

Valid(df, I) == {i \in I : ~isna(df.rows[i].val)}

\* a / n for a rational a and an integer n > 0
Over(a, n) == Ratio(a[1], a[2] * n)

MapCalled == ret.done /\ call.fn = "map_view" /\ ret.value.status = "chart"

\* C9: the map aggregation gives each (location_name, map_id) group of the
\* filtered rows of the selected cancer type the value sum of val / count of
\* rows, and a group of a single row gets exactly that row's val.
C9_MeanSumOverCount ==
    MapCalled =>
        \A g \in ret.value.data :
            LET df == call.filtered_data
                I == GroupIdx(df, call.selected_cancer, g.location_name, g.mapid)
            IN  /\ I # {}
                /\ g.val = Over(SumOver(I, ValOrZero(df)), Cardinality(I))
                /\ Cardinality(I) = 1 =>
                       \A i \in I : g.val = df.rows[i].val

TrendCalled == ret.done /\ call.fn = "render_lineplot" /\ ret.value.status = "chart"

\* the mean over the rows of I with a valid val, missing when there is none
ValidMean(df, I) ==
    IF Valid(df, I) = {} THEN NaN
    ELSE Over(SumOver(Valid(df, I), ValOrZero(df)), Cardinality(Valid(df, I)))

\* C10: in the means of the map and trend aggregations a row with a missing
\* val counts neither in the numerator nor in the denominator, and a group
\* with no valid val never yields 0.
C10_MissingValIgnored ==
    /\ MapCalled =>
          \A g \in ret.value.data :
              LET df == call.filtered_data
                  I == GroupIdx(df, call.selected_cancer, g.location_name, g.mapid)
              IN  /\ g.val = ValidMean(df, I)
                  /\ Valid(df, I) = {} => g.val # Float(0)
    /\ TrendCalled =>
          \A g \in ret.value.data :
              LET df == call.risks_df
                  I == {i \in DOMAIN df.rows :
                          /\ df.rows[i].cause_name = call.selected_cancer
                          /\ df.rows[i].rei_name \in call.selected_risks
                          /\ TimeHolds(df.rows[i],
                                 [year |-> call.selected_year,
                                  year_range |-> call.year_range])
                          /\ df.rows[i].year = g.year
                          /\ df.rows[i].rei_name = g.rei_name}
              IN  /\ g.val = ValidMean(df, I)
                  /\ Valid(df, I) = {} => g.val # Float(0)

----------------------------------------------------------------------------
(* Claims about the selection state *)

DatasetCauses == unique_cause_name(risks_df)

\* the pass got a dataset from load_data
SawDataset == outcome \in {"no_risks", "done", "exception"}

ClickPass == app \in {"map", "heatmap"} /\ selected_val # None

\* the click value is in force from the click on, and the views use it
ClickWins ==
    (ClickPass /\ pc \in {"map", "trend", "end"}) =>
        /\ session_state.selected_cancer = selected_val
        /\ views.map.status # "none" => views.map.cancer = selected_val
        /\ views.trend.status # "none" => views.trend.cancer = selected_val

\* a pass that began with a clicked value and got no click for another value
NoOtherClick ==
    /\ pc = "end"
    /\ prev.origin = "click"
    /\ selected_val \in {None, prev.selected_cancer}

C6_ViewsUseDatasetCancer ==
    \A v \in {"map", "trend"} :
        views[v].status # "none" => views[v].cancer \in DatasetCauses

\* the default the selection state machine assigns for a set of cancer types
DefaultOf(S) ==
    IF Cardinality(S) >= 2 THEN NthCause(S, 1)
    ELSE IF Cardinality(S) = 1 THEN NthCause(S, 0)
    ELSE None

\* C7: when the dataset seen by a pass of the full dashboard lacks the bound
\* cancer type, selected_cancer is the default of that dataset by the end of
\* the pass.
C7_AbsentTypeReplaced ==
    (app = "map" /\ pc = "end" /\ SawDataset
        /\ prev.selected_cancer # None
        /\ prev.selected_cancer \notin DatasetCauses) =>
        session_state.selected_cancer = DefaultOf(DatasetCauses)

\* a pass that began after the default assignment and got no click event
NoClickPass ==
    /\ pc = "end"
    /\ ~prev.needs_default
    /\ selected_val = None

\* C8 as stated: once the default is assigned, a pass with no click event on
\* an unchanged dataset leaves selected_cancer as it was before the pass.
C8_OnlyClickChanges ==
    (NoClickPass /\ (prev.cached \/ outcome = "about")) =>
        session_state.selected_cancer = prev.selected_cancer

\* C8 amended: once the default is assigned, a pass with no click event and
\* no change of the line script's cancer selectbox leaves selected_cancer as
\* it was, provided the dataset of the pass contains that value.
C8_OnlyClickSelectboxRecovery ==
    (NoClickPass /\ prev.picked \in {None, prev.selected_cancer}
        /\ (SawDataset => prev.selected_cancer \in DatasetCauses)) =>
        session_state.selected_cancer = prev.selected_cancer

\* a pass on the cached dataset, with other filters and no click, that went
\* through both detail views and kept a clicked value that is not the default
C8_Witness ==
    /\ NoClickPass /\ outcome = "done" /\ app = "map"
    /\ prev.cached /\ prev.picked = None
    /\ prev.origin = "click"
    /\ prev.selected_cancer \in DatasetCauses
    /\ prev.selected_cancer # DefaultOf(DatasetCauses)
    /\ views.trend.status # "none"
    /\ session_state.selected_cancer = prev.selected_cancer

----------------------------------------------------------------------------
(* Claims about the trend aggregation *)

LineplotCalled == ret.done /\ call.fn = "render_lineplot"

\* the rows of the dataset that pass render_lineplot's cancer, risk and time filters
PassesTrendFilters(r) ==
    /\ r.cause_name = call.selected_cancer
    /\ r.rei_name \in call.selected_risks
    /\ TimeHolds(r, [year |-> call.selected_year, year_range |-> call.year_range])

KeptLabels == {ret.value.rows[j].idx : j \in DOMAIN ret.value.rows}

\* C11: with a measure_name column the trend aggregation drops every row whose
\* measure_name is "Deaths" and no other row for its measure; without the
\* column it filters nothing by measure.
C11_DeathsExcludedIfColumn ==
    LineplotCalled =>
        \A i \in DOMAIN call.risks_df.rows :
            LET r == call.risks_df.rows[i]
            IN  (r.idx \in KeptLabels) <=>
                    /\ PassesTrendFilters(r)
                    /\ "measure_name" \in call.risks_df.columns =>
                           r.measure_name # "Deaths"

\* a dataset with the column, one Deaths row dropped and one DALYs row kept,
\* both passing the other filters
C11_Witness ==
    /\ LineplotCalled
    /\ "measure_name" \in call.risks_df.columns
    /\ Len(call.risks_df.rows) = 2
    /\ \A i \in DOMAIN call.risks_df.rows : PassesTrendFilters(call.risks_df.rows[i])
    /\ call.risks_df.rows[1].measure_name = "Deaths"
    /\ call.risks_df.rows[2].measure_name = "DALYs"
    /\ KeptLabels = {1}

\* the rows of the dataset of one (year, rei_name) pair that pass the cancer,
\* risk and time filters
PairIdx(k) ==
    {i \in DOMAIN call.risks_df.rows :
        /\ PassesTrendFilters(call.risks_df.rows[i])
        /\ call.risks_df.rows[i].year = k[1]
        /\ call.risks_df.rows[i].rei_name = k[2]}

\* those of them the trend aggregation keeps: not the Deaths rows of a dataset
\* with a measure_name column
KeptPairIdx(k) ==
    {i \in PairIdx(k) :
        "measure_name" \in call.risks_df.columns =>
            call.risks_df.rows[i].measure_name # "Deaths"}

AllPairs ==
    {<<call.risks_df.rows[i].year, call.risks_df.rows[i].rei_name>> :
        i \in DOMAIN call.risks_df.rows}

PointsOf(k) == {p \in ret.value.data : p.year = k[1] /\ p.rei_name = k[2]}

\* C20, as stated: the trend aggregation has exactly one point for every
\* (year, rei_name) pair with a row of the selected cancer type, the selected
\* risk factors and the time constraint, its val the mean of those rows, and
\* no point for any other pair.
C20_OnePointPerPair ==
    LineplotCalled =>
        \A k \in AllPairs :
            IF PairIdx(k) = {} THEN PointsOf(k) = {}
            ELSE /\ Cardinality(PointsOf(k)) = 1
                 /\ \A p \in PointsOf(k) : p.val = ValidMean(call.risks_df, PairIdx(k))

\* C20: the same over the rows the aggregation keeps, which in a dataset with
\* a measure_name column are the rows that are not Deaths rows; the mean is
\* over the rows with a val and is missing when the group has none.
C20_OnePointPerKeptPair ==
    LineplotCalled =>
        /\ \A k \in AllPairs :
              IF KeptPairIdx(k) = {} THEN PointsOf(k) = {}
              ELSE /\ Cardinality(PointsOf(k)) = 1
                   /\ \A p \in PointsOf(k) :
                         p.val = ValidMean(call.risks_df, KeptPairIdx(k))
        /\ \A p \in ret.value.data : <<p.year, p.rei_name>> \in AllPairs

\* two rows of one pair averaged into one point, and a chart of two points
C20_Witness ==
    /\ LineplotCalled
    /\ Len(call.risks_df.rows) = 2
    /\ ret.value.data = {[year |-> 1990, rei_name |-> "Tobacco", val |-> Float(15)]}

----------------------------------------------------------------------------
(* Claims about the heatmap's data *)

HeatmapCalled == ret.done /\ call.fn = "heatmap"

HeatKeys(df) == {<<df.rows[i].cause_name, df.rows[i].rei_name>> : i \in DOMAIN df.rows}

HeatGroup(df, k) ==
    LET InGroup(r) == r.cause_name = k[1] /\ r.rei_name = k[2]
    IN  SelectSeq(df.rows, InGroup)

\* C12: the data handed to the heatmap has, for every (cause_name, rei_name)
\* group of the filtered rows, exactly one row, and its val is the mean of the
\* group's val values.
C12_HeatmapOneRowPerGroup ==
    HeatmapCalled =>
        \A k \in HeatKeys(call.filtered_data) :
            LET hits == {j \in DOMAIN ret.value.rows :
                            /\ ret.value.rows[j].cause_name = k[1]
                            /\ ret.value.rows[j].rei_name = k[2]}
            IN  /\ Cardinality(hits) = 1
                /\ \A j \in hits :
                      ret.value.rows[j].val = mean(HeatGroup(call.filtered_data, k))

\* C21: in the map script's heatmap a (cause_name, rei_name) cell reads
\* 'Missing (N/A)' only when the filtered rows have no row with a val for the
\* pair.
C21_MissingOnlyWithoutVal ==
    (HeatmapCalled /\ call.script = "map") =>
        \A k \in ret.value.missing :
            \A i \in DOMAIN call.filtered_data.rows :
                LET r == call.filtered_data.rows[i]
                IN  (r.cause_name = k[1] /\ r.rei_name = k[2]) => isna(r.val)

\* the part of C21 the code keeps: the rows transform_impute adds are for
\* pairs without any row, and a row whose val is not IMPUTE_VALUE is never
\* labelled missing
C21_ImputedOnlyWithoutRow ==
    (HeatmapCalled /\ call.script = "map") =>
        /\ \A m \in ret.value.imputed :
              <<m.cause_name, m.rei_name>> \notin HeatKeys(call.filtered_data)
        /\ \A k \in ret.value.missing :
              \/ k \notin HeatKeys(call.filtered_data)
              \/ \E i \in DOMAIN call.filtered_data.rows :
                    /\ call.filtered_data.rows[i].cause_name = k[1]
                    /\ call.filtered_data.rows[i].rei_name = k[2]
                    /\ call.filtered_data.rows[i].val = Float(IMPUTE_VALUE)

----------------------------------------------------------------------------
(* Claims about loading *)

LoadFailed == pc = "end" /\ outcome = "load_error"

\* C13: a pass whose load fails halts after the error message: no view was
\* computed and no click handled in it, selected_cancer and needs_default have
\* the values the pass began with, and the session can run another pass.
C13_LoadFailureHalts ==
    /\ LoadFailed =>
          /\ views = NoViews
          /\ selected_val = None
          /\ selected_risks = {}
          /\ writes = 0
          /\ session_state.selected_cancer = prev.selected_cancer
          /\ session_state.needs_default = prev.needs_default
          /\ ENABLED Finish
    /\ pc = "idle" => ENABLED Begin

\* a load that fails in a session whose selection is already bound
C13_Witness ==
    /\ LoadFailed
    /\ ~cache.hit
    /\ prev.selected_cancer # None
    /\ ~prev.needs_default

\* C14, as stated: once an execution of load_data has returned, no later step
\* executes its body again.
C14_NeverReadsAgain ==
    [][reads.done => reads'.pass \in {"none", reads.pass}]_vars

\* C14: a pass that finds the memoized entry reads no file and works on the
\* entry's contents, which no step changes while the entry exists; a pass that
\* finds no entry executes load_data, and a failed execution stores nothing.
C14_ReadsOnlyWithoutEntry ==
    [][/\ (pc = "load" /\ cache.hit /\ pc' # "load") =>
              /\ reads' = reads
              /\ cache' = cache
              /\ risks_df' = cache.value
       /\ (cache.hit /\ cache'.hit) => cache'.value = cache.value
       /\ (pc = "load" /\ ~cache.hit /\ pc' # "load") => reads'.pass \in {"ok", "failed"}
       /\ (reads.pass # "failed" /\ reads'.pass = "failed") =>
              /\ ~cache'.hit
              /\ cache' = cache]_vars

\* a pass served from the entry although the files on disk now hold other rows
C14_Witness ==
    /\ pc = "sidebar"
    /\ cache.hit
    /\ reads.done
    /\ reads.pass = "none"
    /\ risks_df = cache.value
    /\ LoadFor(app, Files[disk]).raised = ""
    /\ LoadFor(app, Files[disk]).value.rows # cache.value.rows

LoadCalled == ret.done /\ call.fn = "load_data"

\* the rows of the file that are not a repeated header, in file order
DataRows(file) ==
    LET NotHeader(r) == r # HeaderRow
    IN  SelectSeq(file.rows, NotHeader)

Uncoercible(tok) == tok \notin DOMAIN NumericTokens

\* C15: load_data does not raise on a file whose rows have a year or a val
\* that is not a number: it returns one row per data row of the file, with a
\* missing year where the year cannot be coerced and a missing val where the
\* val cannot be coerced.
C15_BadCellsLoadAsMissing ==
    LoadCalled =>
        /\ ret.raised = ""
        /\ Len(ret.value.rows) = Len(DataRows(call.file))
        /\ \A i \in DOMAIN ret.value.rows :
              /\ Uncoercible(DataRows(call.file)[i].year) => isna(ret.value.rows[i].year)
              /\ Uncoercible(DataRows(call.file)[i].val) => isna(ret.value.rows[i].val)

\* the half of C15 the code keeps: without an uncoercible year the load
\* succeeds and an uncoercible val is a missing val
C15_BadValLoadsAsMissing ==
    (LoadCalled /\ \A i \in DOMAIN call.file.rows :
                       call.file.rows[i] = HeaderRow \/ ~Uncoercible(call.file.rows[i].year)) =>
        /\ ret.raised = ""
        /\ Len(ret.value.rows) = Len(DataRows(call.file))
        /\ \A i \in DOMAIN ret.value.rows :
              isna(ret.value.rows[i].val) <=> Uncoercible(DataRows(call.file)[i].val)

----------------------------------------------------------------------------
(* Claims about the map aggregation *)

MapViewCalled == ret.done /\ call.fn = "map_view"

HasMapid(r) == ~isna(r.mapid)

\* C16: rows without a map id are out of the map aggregation before grouping:
\* the view is the one of the same rows without them (same groups, sums and
\* counts), no group has a missing map id, and every group has at least one
\* row of the selected cancer type with its state and map id.
C16_NoMapidRowsExcluded ==
    MapViewCalled =>
        LET df == call.filtered_data
        IN  /\ ret.value = map_view(Mask(df, HasMapid), call.selected_cancer)
            /\ \A g \in ret.value.data :
                  /\ ~isna(g.mapid)
                  /\ g.count = Cardinality(GroupIdx(df, call.selected_cancer,
                                                    g.location_name, g.mapid))
                  /\ g.count > 0
            /\ \A i \in DOMAIN df.rows :
                  (df.rows[i].cause_name = call.selected_cancer /\ HasMapid(df.rows[i])) =>
                      \E g \in ret.value.data : g.location_name = df.rows[i].location_name

\* a state's group next to a row of the same cancer type without a map id
C16_Witness ==
    /\ MapViewCalled
    /\ ret.value.status = "chart"
    /\ Cardinality(ret.value.data) = 1
    /\ \E i, j \in DOMAIN call.filtered_data.rows :
          /\ call.filtered_data.rows[i].cause_name = call.selected_cancer
          /\ isna(call.filtered_data.rows[i].mapid)
          /\ call.filtered_data.rows[j].cause_name = call.selected_cancer
          /\ HasMapid(call.filtered_data.rows[j])

----------------------------------------------------------------------------
(* Claims about a pass as a whole *)

\* the filtered rows of the pass, restricted to one cancer type
RestrictedRows(c) ==
    LET IsCancer(r) == r.cause_name = c
    IN  SelectSeq(get_filtered_data(risks_df, selected_risks,
                                    selected_year, year_range).rows, IsCancer)

\* the map view ran in this pass and had no row of its cancer type
MapHadNoRows ==
    views.map.status # "none" /\ RestrictedRows(views.map.cancer) = <<>>

\* the trend view ran in this pass and had no row of its cancer type
TrendHadNoRows ==
    views.trend.status # "none" /\ RestrictedRows(views.trend.cancer) = <<>>

\* C17: a map or trend view without rows of the selected cancer type shows the
\* no-data message and no chart, and the pass goes on to its end: the view
\* after it is computed and the no-data outcome leaves selected_cancer alone.
C17_NoDataPassContinues ==
    /\ (pc \in {"trend", "end"} /\ MapHadNoRows) =>
          /\ views.map.status = "nodata"
          /\ session_state.selected_cancer = views.map.cancer \/ pc = "end"
          /\ pc = "end" => outcome = "done"
          /\ (pc = "end" /\ app = "map") => views.trend.status # "none"
    /\ (pc = "end" /\ TrendHadNoRows) =>
          /\ views.trend.status = "nodata"
          /\ session_state.selected_cancer = views.trend.cancer
          /\ outcome = "done"
          /\ app = "map" => views.map.status # "none"

C22_ViewFailureIsolated ==
    /\ (pc = "end" /\ views.map.status = "render_error") =>
          /\ outcome = "done"
          /\ app = "map" => views.trend.status # "none"
    /\ outcome # "exception"

\* the part of C22 the code keeps: the map chart's failure is handled
C22_MapFailureIsolated ==
    (pc = "end" /\ views.map.status = "render_error") =>
        /\ outcome = "done"
        /\ app = "map" => views.trend.status # "none"

ViewComputed ==
    \/ pc \in {"heatmap", "map", "trend"}
    \/ \E v \in DOMAIN views : views[v].status # "none"

\* C23: no view is computed with an empty selected_risks: a pass with an empty
\* selection ends at the warning, before any filter, view or click handling,
\* and in every pass that computes a view selected_risks is a non-empty subset
\* of ALL_RISK_FACTORS.
C23_ViewsNeedRisks ==
    /\ ViewComputed => (selected_risks # {} /\ selected_risks \subseteq Risks)
    /\ (pc # "idle" /\ pc # "load" /\ pc # "sidebar" /\ page = "Main Dashboard"
            /\ outcome # "load_error" /\ selected_risks = {}) =>
          /\ pc = "end"
          /\ outcome = "no_risks"
          /\ views = NoViews
          /\ selected_val = None

\* a pass of a session with a bound selection halted at the warning
C23_Witness ==
    /\ pc = "end"
    /\ outcome = "no_risks"
    /\ selected_risks = {}
    /\ session_state.selected_cancer # None
    /\ views = NoViews

\* C24: in a pass that computes both the map view and the trend view, the
\* selected_cancer the map aggregation read is the one passed to
\* render_lineplot.
C24_MapAndTrendSameCancer ==
    (views.map.status # "none" /\ views.trend.status # "none") =>
        views.map.cancer = views.trend.cancer

\* the part of C24 the code keeps: the two views differ only in a pass whose
\* validity check replaced a selection the dataset does not have
C24_SameCancerWhenValid ==
    (views.map.status # "none" /\ views.trend.status # "none") =>
        \/ views.map.cancer = views.trend.cancer
        \/ /\ views.map.cancer \notin DatasetCauses
           /\ origin = "recovery"
           /\ views.map.status = "nodata"

\* a main-dashboard pass of a session that has assigned no selected_cancer
\* yet has ended, its load_data call returned a dataset with a cancer type
FirstPassLoaded ==
    /\ pc = "end"
    /\ page = "Main Dashboard"
    /\ prev.origin = "init"
    /\ prev.selected_cancer = None
    /\ cache.hit
    /\ risks_df = cache.value
    /\ unique_cause_name(risks_df) # {}

\* C26: such a pass ends with needs_default false and selected_cancer bound
\* to a cancer type of the dataset.
C26_FirstPassBinds ==
    FirstPassLoaded =>
        /\ ~session_state.needs_default
        /\ session_state.selected_cancer \in unique_cause_name(risks_df)

\* the part of C26 the code keeps: it binds when the dataset has two cancer
\* types or more, and in the line script with one type as well
C26_FirstPassBindsTwoTypes ==
    (FirstPassLoaded /\ (app = "line" \/ Cardinality(unique_cause_name(risks_df)) >= 2)) =>
        /\ ~session_state.needs_default
        /\ session_state.selected_cancer \in unique_cause_name(risks_df)

====
